---- MODULE Spec2Model ----
(***************************************************************************)
(* Model of the medical appointment booking engine:                        *)
(*   database.py      PatientDatabase   (patients / doctors / schedules)   *)
(*   scheduler.py     SmartScheduler    (duration policy, reservation)     *)
(*   patient_agent.py PatientAgent      (conversation state machine)       *)
(*   main.py          one PatientAgent per browser session                 *)
(*                                                                         *)
(* A text is a sequence of one-character strings, so that strip(), len(),  *)
(* upper(), "in" and int() are computed as Python computes them.           *)
(* A schedule date is a day number (the CSV's YYYY-MM-DD string, which the *)
(* code compares by equality with strftime('%Y-%m-%d') of today + offset); *)
(* a schedule time is minutes after midnight (the CSV's zero padded HH:MM  *)
(* string, compared by equality with strftime('%H:%M')).                   *)
(***************************************************************************)
EXTENDS Integers, Sequences, FiniteSets, TLC

(***************************************************************************)
(* Texts                                                                   *)
(***************************************************************************)
DigitChars == {"0", "1", "2", "3", "4", "5", "6", "7", "8", "9"}

DigitVal(c) ==
    CASE c = "0" -> 0 [] c = "1" -> 1 [] c = "2" -> 2 [] c = "3" -> 3
      [] c = "4" -> 4 [] c = "5" -> 5 [] c = "6" -> 6 [] c = "7" -> 7
      [] c = "8" -> 8 [] c = "9" -> 9

UpperChars ==
    {"A", "B", "C", "D", "E", "F", "G", "H", "I", "J", "K", "L", "M",
     "N", "O", "P", "Q", "R", "S", "T", "U", "V", "W", "X", "Y", "Z"}

LowerChars ==
    {"a", "b", "c", "d", "e", "f", "g", "h", "i", "j", "k", "l", "m",
     "n", "o", "p", "q", "r", "s", "t", "u", "v", "w", "x", "y", "z"}

UpperSeq ==
    <<"A", "B", "C", "D", "E", "F", "G", "H", "I", "J", "K", "L", "M",
      "N", "O", "P", "Q", "R", "S", "T", "U", "V", "W", "X", "Y", "Z">>

LowerSeq ==
    <<"a", "b", "c", "d", "e", "f", "g", "h", "i", "j", "k", "l", "m",
      "n", "o", "p", "q", "r", "s", "t", "u", "v", "w", "x", "y", "z">>

\* str.lower() / str.upper() on one character
LowerChar(c) ==
    IF c \in UpperChars
    THEN LowerSeq[CHOOSE i \in 1..26 : UpperSeq[i] = c]
    ELSE c

UpperChar(c) ==
    IF c \in LowerChars
    THEN UpperSeq[CHOOSE i \in 1..26 : LowerSeq[i] = c]
    ELSE c

Lower(t) == [i \in 1..Len(t) |-> LowerChar(t[i])]

Upper(t) == [i \in 1..Len(t) |-> UpperChar(t[i])]

IsSpace(c) == c = " "

RECURSIVE LStrip(_)
LStrip(t) ==
    IF t # <<>> /\ IsSpace(Head(t)) THEN LStrip(Tail(t)) ELSE t

RECURSIVE RStrip(_)
RStrip(t) ==
    IF t # <<>> /\ IsSpace(t[Len(t)])
    THEN RStrip(SubSeq(t, 1, Len(t) - 1))
    ELSE t

\* str.strip()
Strip(t) == RStrip(LStrip(t))

\* Python's "needle in hay" on strings (the empty needle is in every text)
Contains(hay, needle) ==
    \E i \in 0..(Len(hay) - Len(needle)) :
        SubSeq(hay, i + 1, i + Len(needle)) = needle

AllDigits(t) == t # <<>> /\ \A i \in 1..Len(t) : t[i] \in DigitChars

RECURSIVE DecValue(_)
DecValue(t) ==
    IF t = <<>> THEN 0
    ELSE 10 * DecValue(SubSeq(t, 1, Len(t) - 1)) + DigitVal(t[Len(t)])

\* int(text): the text is stripped, an optional sign, then digits only;
\* anything else raises ValueError
IntBody(t) ==
    IF t # <<>> /\ Head(t) \in {"+", "-"} THEN Tail(t) ELSE t

IntParses(t) == AllDigits(IntBody(Strip(t)))

IntValue(t) ==
    IF Strip(t) # <<>> /\ Head(Strip(t)) = "-"
    THEN 0 - DecValue(IntBody(Strip(t)))
    ELSE DecValue(IntBody(Strip(t)))

(***************************************************************************)
(* Program constants                                                       *)
(***************************************************************************)
\* timedelta(minutes=30): one base unit
SlotMinutes == 30

\* strftime('%H:%M') keeps the time of day only
MinutesPerDay == 1440

\* APPOINTMENT_DURATIONS
NewPatientDuration == 60

ReturningPatientDuration == 30

\* get_available_appointments always passes duration 60
QueryDuration == 60

\* show_availability / handle_slot_selection: num_days=14
NumDays == 14

\* format_available_slots(available_slots, limit=10)
DisplayLimit == 10

\* datetime.now().date(), as a day number
Today == 0

HM(h, m) == h * 60 + m

\* an optional value: None is <<>>, a value v is <<v>>
None == <<>>

Some(v) == <<v>>

(***************************************************************************)
(* Reference data (doctors.csv) and the files' first contents              *)
(***************************************************************************)
T_DrSmith == <<"D", "r", ".", " ", "S", "m", "i", "t", "h">>

T_DrJones == <<"D", "r", ".", " ", "J", "o", "n", "e", "s">>

T_JohnSmith == <<"J", "o", "h", "n", " ", "S", "m", "i", "t", "h">>

T_AnnLee == <<"A", "n", "n", " ", "L", "e", "e">>

T_JaneDoe == <<"J", "a", "n", "e", " ", "D", "o", "e">>

T_Aetna == <<"A", "e", "t", "n", "a">>

T_TBD == <<"T", "B", "D">>

DigitSeq == <<"0", "1", "2", "3", "4", "5", "6", "7", "8", "9">>

\* str(n), n >= 0
RECURSIVE DecimalText(_)
DecimalText(n) ==
    IF n < 10 THEN <<DigitSeq[n + 1]>>
    ELSE DecimalText(n \div 10) \o <<DigitSeq[(n % 10) + 1]>>

\* f"{n:03d}": zero-padded to at least three characters
Pad3(n) ==
    LET d == DecimalText(n)
    IN  IF Len(d) >= 3 THEN d
        ELSE [i \in 1..(3 - Len(d)) |-> "0"] \o d

\* f"P{n:03d}"
PatientIdText(n) == <<"P">> \o Pad3(n)

\* the patient_id given to an appointment of a patient_info without one
T_NEW == <<"N", "E", "W">>

\* f'APT{datetime.now().strftime("%Y%m%d%H%M%S")}' for the clock at `now`
\* whole seconds: one text per second, whatever the fraction of the second
AppointmentIdText(now) == <<"A", "P", "T">> \o DecimalText(now)

\* doctors_df
Doctors ==
    << [doctor_name |-> T_DrSmith, location |-> "Main Clinic"],
       [doctor_name |-> T_DrJones, location |-> "North Clinic"] >>

T_EveFox == <<"E", "v", "e", " ", "F", "o", "x">>

\* what read_csv gives for an empty cell: float('nan'), which is neither
\* falsy nor equal to any text
NaN == <<"NaN">>

\* patients.csv as first read: a returning patient with insurance on file,
\* a registered patient who has not visited yet, and a returning patient
\* whose insurance_carrier cell is empty
InitPatients ==
    << [patient_id |-> PatientIdText(1), name |-> T_JohnSmith,
        insurance_carrier |-> T_Aetna, previous_visits |-> 2],
       [patient_id |-> PatientIdText(2), name |-> T_AnnLee,
        insurance_carrier |-> T_TBD, previous_visits |-> 0],
       [patient_id |-> PatientIdText(3), name |-> T_EveFox,
        insurance_carrier |-> NaN, previous_visits |-> 1] >>

Row(d, day, t, a) ==
    [doctor_name |-> d, date |-> day, time |-> t, available |-> a]

\* schedules.csv as first read: rows of one provider inside office hours,
\* (doctor_name, date, time) a unique key; a in BOOLEAN^3 gives the flags
\* of today's slots, tomorrow's only slot is open
ScheduleOf(a) ==
    << Row(T_DrSmith, Today, HM(9, 0), a[1]),
       Row(T_DrSmith, Today, HM(9, 30), a[2]),
       Row(T_DrSmith, Today, HM(10, 0), a[3]),
       Row(T_DrSmith, Today + 1, HM(9, 0), TRUE) >>

(***************************************************************************)
(* PatientDatabase (database.py)                                           *)
(***************************************************************************)
\* is_returning_patient with ">= 0" where the code has "> 0"
is_returning_patient_nonneg(patient_info) ==
    IF patient_info # None /\ "previous_visits" \in DOMAIN patient_info[1]
    THEN patient_info[1].previous_visits >= 0
    ELSE FALSE

\* is_returning_patient(patient_info); patient_info is None (the empty
\* dict) or Some(record)
is_returning_patient(patient_info) ==
    IF patient_info # None /\ "previous_visits" \in DOMAIN patient_info[1]
    THEN patient_info[1].previous_visits > 0
    ELSE FALSE

\* get_doctor_info(doctor_name): the first matching row, or None
get_doctor_info(doctor_name) ==
    LET hits == SelectSeq(Doctors, LAMBDA d : d.doctor_name = doctor_name)
    IN  IF Len(hits) > 0 THEN Some(hits[1]) ELSE None

\* get_all_doctors()
get_all_doctors == [i \in 1..Len(Doctors) |-> Doctors[i].doctor_name]

\* (slot_datetime + timedelta(minutes=30)).strftime('%H:%M')
NextSlotTime(time) == (time + SlotMinutes) % MinutesPerDay

\* next_slot_query without its "available == True" term
NextSlotExists(df, doctor_name, slot) ==
    \E i \in 1..Len(df) :
        /\ df[i].doctor_name = doctor_name
        /\ df[i].date = slot.date
        /\ df[i].time = NextSlotTime(slot.time)

\* next_slot_query of get_available_slots, evaluated on the whole table
NextSlotAvailable(df, doctor_name, slot) ==
    \E i \in 1..Len(df) :
        /\ df[i].doctor_name = doctor_name
        /\ df[i].date = slot.date
        /\ df[i].time = NextSlotTime(slot.time)
        /\ df[i].available

\* get_available_slots taking the single-slot branch for every duration
get_available_slots_single(df, doctor_name, date, duration) ==
    SelectSeq(df, LAMBDA r :
        /\ r.doctor_name = doctor_name
        /\ r.available
        /\ (date # None => r.date = date[1]))

\* get_available_slots(doctor_name, date, duration); date is None or Some(d)
get_available_slots(df, doctor_name, date, duration) ==
    LET available_slots ==
            SelectSeq(df, LAMBDA r :
                /\ r.doctor_name = doctor_name
                /\ r.available
                /\ (date # None => r.date = date[1]))
    IN  SelectSeq(available_slots, LAMBDA slot :
            IF duration <= SlotMinutes
            THEN TRUE
            ELSE NextSlotAvailable(df, doctor_name, slot))

\* the assignment made on a copy of the selection: the table keeps its flags
MarkUnavailable_on_copy(df, doctor_name, date, time) == df

\* schedules_df.loc[query, 'available'] = False
MarkUnavailable(df, doctor_name, date, time) ==
    [i \in 1..Len(df) |->
        IF /\ df[i].doctor_name = doctor_name
           /\ df[i].date = date
           /\ df[i].time = time
        THEN [df[i] EXCEPT !.available = FALSE]
        ELSE df[i]]

\* book_appointment without its "if duration > 30" block
BookedTable_primary_only(df, doctor_name, date, time, duration) ==
    MarkUnavailable(df, doctor_name, date, time)

\* the in-memory part of book_appointment: the primary slot and, for a
\* duration over 30 minutes, the slot 30 minutes later
BookedTable(df, doctor_name, date, time, duration) ==
    LET primary == MarkUnavailable(df, doctor_name, date, time)
    IN  IF duration > SlotMinutes
        THEN MarkUnavailable(primary, doctor_name, date, NextSlotTime(time))
        ELSE primary

\* book_appointment(doctor_name, date, time, duration, patient_info):
\*   ioOk = FALSE is to_csv raising; the table is already changed then.
\*   Returns the table, whether the file was written, and the appointment
\*   (None when an exception left the method). appointment_id is
\*   'APT' + now.strftime("%Y%m%d%H%M%S"): the second of the clock, written
\*   here as AppointmentIdText of the number of seconds.
db_book_appointment(df, doctor_name, date, time, duration, patient_info, now, ioOk) ==
    LET table == BookedTable(df, doctor_name, date, time, duration)
        info  == get_doctor_info(doctor_name)
    IN  IF ~ioOk
        THEN [df |-> table, saved |-> FALSE, appointment |-> None]
        ELSE IF info = None
        THEN [df |-> table, saved |-> TRUE, appointment |-> None]
        ELSE [df |-> table, saved |-> TRUE,
              appointment |-> Some(
                [appointment_id |-> AppointmentIdText(now),
                 patient_id |-> IF patient_info # None
                                   /\ "patient_id" \in DOMAIN patient_info[1]
                                THEN patient_info[1].patient_id ELSE T_NEW,
                 doctor_name |-> doctor_name,
                 date |-> date,
                 time |-> time,
                 duration |-> duration,
                 location |-> info[1].location])]

\* add_new_patient(patient_data): the identifier is made from the length of
\* the table of this PatientDatabase object; ioOk = FALSE is to_csv raising,
\* after the record was appended in memory.
\*   Returns the table, whether the file was written, and the record.
add_new_patient(patients_df, patient_data, ioOk) ==
    LET new_patient_id == PatientIdText(Len(patients_df) + 1)
        record == [patient_id |-> new_patient_id,
                   name |-> patient_data.name,
                   insurance_carrier |-> patient_data.insurance_carrier,
                   previous_visits |-> 0]
    IN  [df |-> Append(patients_df, record), saved |-> ioOk,
         patient |-> IF ioOk THEN Some(record) ELSE None]

(***************************************************************************)
(* SmartScheduler (scheduler.py)                                           *)
(***************************************************************************)
\* determine_appointment_duration giving every patient the new-patient time
determine_appointment_duration_always_new(patient_info) == NewPatientDuration

\* determine_appointment_duration(patient_info)
determine_appointment_duration(patient_info) ==
    IF is_returning_patient(patient_info)
    THEN ReturningPatientDuration
    ELSE NewPatientDuration

RECURSIVE SlotsOfDays(_, _, _, _)
SlotsOfDays(df, doctor_name, day_offset, num_days) ==
    IF day_offset >= num_days THEN <<>>
    ELSE get_available_slots(df, doctor_name, Some(Today + day_offset), QueryDuration)
         \o SlotsOfDays(df, doctor_name, day_offset + 1, num_days)

\* get_available_appointments(doctor_name, preferred_date=None, num_days)
get_available_appointments(df, doctor_name, preferred_date, num_days) ==
    IF preferred_date # None
    THEN get_available_slots(df, doctor_name, preferred_date, QueryDuration)
    ELSE SlotsOfDays(df, doctor_name, 0, num_days)

\* schedule_appointment(patient_info, doctor_name, date, time)
\*   err: "none", "conflict" (slot no longer available), "exception"
schedule_appointment(df, patient_info, doctor_name, date, time, now, ioOk) ==
    LET duration == determine_appointment_duration(patient_info)
        available_slots == get_available_slots(df, doctor_name, Some(date), duration)
        slot_available ==
            \E i \in 1..Len(available_slots) :
                available_slots[i].date = date /\ available_slots[i].time = time
        booked == db_book_appointment(df, doctor_name, date, time, duration,
                                      patient_info, now, ioOk)
    IN  IF ~slot_available
        THEN [df |-> df, saved |-> FALSE, appointment |-> None, err |-> "conflict"]
        ELSE IF booked.appointment = None
        THEN [df |-> booked.df, saved |-> booked.saved, appointment |-> None,
              err |-> "exception"]
        ELSE [df |-> booked.df, saved |-> booked.saved,
              appointment |-> booked.appointment, err |-> "none"]

\* format_available_slots(slots, limit): the lines shown, slots[:limit]
\* numbered from 1
format_available_slots(slots, limit) ==
    [i \in 1..(IF Len(slots) < limit THEN Len(slots) ELSE limit) |->
        [number |-> i, date |-> slots[i].date, time |-> slots[i].time]]

\* find_patient(name=name): str.contains(name, case=False), first match;
\* the name is read as a plain substring (no regex metacharacters)
find_patient(patients_df, name) ==
    LET hits == SelectSeq(patients_df,
                    LAMBDA p : Contains(Lower(p.name), Lower(name)))
    IN  IF name = <<>> THEN None
        ELSE IF Len(hits) > 0 THEN Some(hits[1]) ELSE None

(***************************************************************************)
(* Texts a user may type                                                   *)
(***************************************************************************)
T_Empty == <<>>

T_Spaces == <<" ", " ">>

T_Hi == <<"h", "i">>

T_A == <<"A">>

T_CANCEL == <<"C", "A", "N", "C", "E", "L">>

T_CONFIRM == <<"C", "O", "N", "F", "I", "R", "M">>

T_confirm == <<" ", "c", "o", "n", "f", "i", "r", "m", " ">>

T_DOB == <<"1", "9", "9", "0", "-", "0", "5", "-", "1", "5">>

T_FutureDOB == <<"2", "9", "9", "9", "-", "0", "1", "-", "0", "1">>

T_smith == <<"s", "m", "i", "t", "h">>

T_Phone == <<"5", "5", "5", "1", "2", "3", "4", "5", "6", "7">>

\* eleven characters, none of them a digit
T_NoDigits == <<"n", "o", " ", "p", "h", "o", "n", "e", " ", "n", "o">>

T_ShortPhone == <<"5", "5", "5">>

T_Email == <<"j", "@", "x", ".", "i", "o">>

T_BadEmail == <<"j", "@", "x">>

T_1 == <<"1">>

T_2 == <<" ", "2">>

T_9 == <<"9">>

\* datetime.now() as (year, month, day)
NowYMD == <<2025, 9, 1>>

(***************************************************************************)
(* Input validation as the handlers do it                                  *)
(***************************************************************************)
\* the positions of "-" in a text
DashPositions(t) == {i \in 1..Len(t) : t[i] = "-"}

DaysInMonth(y, m) ==
    IF m \in {4, 6, 9, 11} THEN 30
    ELSE IF m = 2
         THEN (IF (y % 4 = 0 /\ y % 100 # 0) \/ y % 400 = 0 THEN 29 ELSE 28)
         ELSE 31

\* datetime.strptime(dob, '%Y-%m-%d'): four digit year, one or two digit
\* month and day, a real calendar date; None is ValueError
ParseDate(t) ==
    LET dashes == DashPositions(t)
    IN  IF Cardinality(dashes) # 2 THEN None
        ELSE LET d1 == CHOOSE i \in dashes : \A j \in dashes : i <= j
                 d2 == CHOOSE i \in dashes : \A j \in dashes : j <= i
                 ys == SubSeq(t, 1, d1 - 1)
                 ms == SubSeq(t, d1 + 1, d2 - 1)
                 ds == SubSeq(t, d2 + 1, Len(t))
             IN  IF /\ AllDigits(ys) /\ Len(ys) = 4
                    /\ AllDigits(ms) /\ Len(ms) \in {1, 2}
                    /\ AllDigits(ds) /\ Len(ds) \in {1, 2}
                    /\ DecValue(ys) >= 1
                    /\ DecValue(ms) \in 1..12
                    /\ DecValue(ds) >= 1
                    /\ DecValue(ds) <= DaysInMonth(DecValue(ys), DecValue(ms))
                 THEN Some(<<DecValue(ys), DecValue(ms), DecValue(ds)>>)
                 ELSE None

\* dob_date > datetime.now(): the parsed date is midnight of its day
DateAfterNow(d) ==
    \/ d[1] > NowYMD[1]
    \/ d[1] = NowYMD[1] /\ d[2] > NowYMD[2]
    \/ d[1] = NowYMD[1] /\ d[2] = NowYMD[2] /\ d[3] > NowYMD[3]

AlNum(c) == c \in DigitChars \/ c \in UpperChars \/ c \in LowerChars

\* re.match(r'^[a-zA-Z0-9._%+-]+@[a-zA-Z0-9.-]+\.[a-zA-Z]{2,}$', email)
EmailMatches(t) ==
    \E at \in 1..Len(t) : \E dot \in 1..Len(t) :
        /\ t[at] = "@"
        /\ at > 1
        /\ \A i \in 1..(at - 1) : AlNum(t[i]) \/ t[i] \in {".", "_", "%", "+", "-"}
        /\ dot > at + 1
        /\ t[dot] = "."
        /\ \A i \in (at + 1)..(dot - 1) : AlNum(t[i]) \/ t[i] \in {".", "-"}
        /\ Len(t) - dot >= 2
        /\ \A i \in (dot + 1)..Len(t) : t[i] \in UpperChars \/ t[i] \in LowerChars

(***************************************************************************)
(* PatientAgent (patient_agent.py): the handlers as functions of the       *)
(* conversation state cs; each returns the new state and the reply.        *)
(***************************************************************************)
Steps ==
    {"greeting", "collect_name", "collect_dob", "collect_doctor",
     "collect_phone", "collect_email", "show_availability",
     "collect_insurance", "confirm_appointment"}

\* reset_conversation(): the new conversation_state has no insurance_temp
reset_conversation ==
    [step |-> "greeting",
     patient_info |-> None,
     appointment_info |-> None,
     name |-> None, dob |-> None, doctor |-> None, location |-> None,
     phone |-> None, email |-> None,
     insurance |-> <<>>,
     insurance_temp |-> <<>>]

Reply(cs, out) == [cs |-> cs, out |-> out]

\* handle_greeting taking the text of the greeting as the name
handle_greeting_records_name(cs, user_input) ==
    Reply([cs EXCEPT !.step = "collect_name", !.name = Some(Strip(user_input))],
          "welcome")

\* handle_greeting(user_input)
handle_greeting(cs, user_input) ==
    Reply([cs EXCEPT !.step = "collect_name"], "welcome")

\* handle_name_collection without the lookup: everybody is a new patient
handle_name_collection_no_lookup(cs, patients_df, user_input) ==
    LET name == Strip(user_input)
    IN  IF Len(name) < 2 THEN Reply(cs, "name_invalid")
        ELSE Reply([cs EXCEPT !.name = Some(name),
                              !.step = "collect_dob"], "patient_new")

\* handle_name_collection(user_input); patients_df is self.db.patients_df
handle_name_collection(cs, patients_df, user_input) ==
    LET name == Strip(user_input)
        existing_patient == find_patient(patients_df, name)
    IN  IF Len(name) < 2 THEN Reply(cs, "name_invalid")
        ELSE IF existing_patient # None
        THEN Reply([cs EXCEPT !.name = Some(name),
                              !.patient_info = existing_patient,
                              !.step = "collect_doctor"], "patient_found")
        ELSE Reply([cs EXCEPT !.name = Some(name),
                              !.step = "collect_dob"], "patient_new")

\* handle_dob_collection(user_input)
handle_dob_collection(cs, user_input) ==
    LET dob == Strip(user_input)
        dob_date == ParseDate(dob)
    IN  IF dob_date = None THEN Reply(cs, "dob_format")
        ELSE IF DateAfterNow(dob_date[1]) THEN Reply(cs, "dob_future")
        ELSE Reply([cs EXCEPT !.dob = Some(dob),
                              !.step = "collect_doctor"], "ask_doctor")

\* show_availability(): df is self.scheduler.db.schedules_df
show_availability(cs, df) ==
    LET available_slots ==
            get_available_appointments(df, cs.doctor[1], None, NumDays)
    IN  IF available_slots = <<>> THEN Reply(cs, "no_slots")
        ELSE Reply([cs EXCEPT !.step = "show_availability"], "slots")

\* the loop of handle_doctor_selection comparing without .lower()
MatchDoctor_case_sensitive(doctor_input) ==
    LET all_doctors == get_all_doctors
        hits == {i \in 1..Len(all_doctors) :
                    \/ Contains(all_doctors[i], doctor_input)
                    \/ Contains(doctor_input, all_doctors[i])}
    IN  IF hits = {} THEN None
        ELSE Some(all_doctors[CHOOSE i \in hits : \A j \in hits : i <= j])

\* the loop of handle_doctor_selection: the first doctor whose lowered name
\* contains the lowered input or is contained in it
MatchDoctor(doctor_input) ==
    LET all_doctors == get_all_doctors
        hits == {i \in 1..Len(all_doctors) :
                    \/ Contains(Lower(all_doctors[i]), Lower(doctor_input))
                    \/ Contains(Lower(doctor_input), Lower(all_doctors[i]))}
    IN  IF hits = {} THEN None
        ELSE Some(all_doctors[CHOOSE i \in hits : \A j \in hits : i <= j])

\* handle_doctor_selection(user_input)
handle_doctor_selection(cs, df, user_input) ==
    LET selected_doctor == MatchDoctor(Strip(user_input))
        chosen == [cs EXCEPT
                     !.doctor = selected_doctor,
                     !.location = Some(get_doctor_info(selected_doctor[1])[1].location)]
    IN  IF selected_doctor = None THEN Reply(cs, "doctor_unknown")
        ELSE IF cs.patient_info # None THEN show_availability(chosen, df)
        ELSE Reply([chosen EXCEPT !.step = "collect_phone"], "ask_phone")

\* handle_phone_collection(user_input)
handle_phone_collection(cs, user_input) ==
    LET phone == Strip(user_input)
    IN  IF Len(phone) < 10 THEN Reply(cs, "phone_invalid")
        ELSE Reply([cs EXCEPT !.phone = Some(phone),
                              !.step = "collect_email"], "ask_email")

\* handle_email_collection with phone read from collected_data: the record
\* is created and the candidates are shown
handle_email_collection_phone_bound(cs, patients_df, df, user_input) ==
    LET email == Strip(user_input)
        new_patient_data == [name |-> cs.name[1], insurance_carrier |-> T_TBD]
        added == add_new_patient(patients_df, new_patient_data, TRUE)
        shown == show_availability(
                    [cs EXCEPT !.email = Some(email),
                               !.patient_info = added.patient], df)
    IN  IF ~EmailMatches(email)
        THEN [cs |-> cs, out |-> "email_invalid", pats |-> patients_df]
        ELSE [cs |-> shown.cs, out |-> shown.out, pats |-> added.df]

\* handle_email_collection(user_input): after the email is stored, building
\* new_patient_data reads the name `phone`, which this method never binds,
\* so NameError leaves the method before add_new_patient is called; pats is
\* the patient table after the call
handle_email_collection(cs, patients_df, df, user_input) ==
    LET email == Strip(user_input)
    IN  IF ~EmailMatches(email)
        THEN [cs |-> cs, out |-> "email_invalid", pats |-> patients_df]
        ELSE [cs |-> [cs EXCEPT !.email = Some(email)], out |-> "raised",
              pats |-> patients_df]

\* the insurance test of handle_slot_selection: `not ....get('insurance_carrier')`
\* is true for an absent key and for the empty text, the second test for 'TBD'
NeedsInsurance(patient_info) ==
    \/ "insurance_carrier" \notin DOMAIN patient_info[1]
    \/ patient_info[1].insurance_carrier = <<>>
    \/ patient_info[1].insurance_carrier = T_TBD

\* the minutes show_appointment_summary prints: 30 if is_returning else 60
SummaryReturningMinutes == 30

SummaryNewMinutes == 60

summary_duration(patient_info) ==
    IF is_returning_patient(patient_info)
    THEN SummaryReturningMinutes
    ELSE SummaryNewMinutes

\* show_appointment_summary()
show_appointment_summary(cs) ==
    Reply([cs EXCEPT !.step = "confirm_appointment"], "summary")

\* handle_slot_selection going on without storing the selected slot
handle_slot_selection_forgets_slot(cs, df, user_input) ==
    LET slot_number == IntValue(user_input) - 1
        available_slots ==
            get_available_appointments(df, cs.doctor[1], None, NumDays)
    IN  IF ~IntParses(user_input) THEN Reply(cs, "slot_not_a_number")
        ELSE IF ~(0 <= slot_number /\ slot_number < Len(available_slots))
        THEN Reply(cs, "slot_out_of_range")
        ELSE IF NeedsInsurance(cs.patient_info)
        THEN Reply([cs EXCEPT !.step = "collect_insurance"], "ask_insurance")
        ELSE show_appointment_summary(cs)

\* handle_slot_selection(user_input)
handle_slot_selection(cs, df, user_input) ==
    LET slot_number == IntValue(user_input) - 1
        available_slots ==
            get_available_appointments(df, cs.doctor[1], None, NumDays)
        selected == [cs EXCEPT
                       !.appointment_info = Some(available_slots[slot_number + 1])]
    IN  IF ~IntParses(user_input) THEN Reply(cs, "slot_not_a_number")
        ELSE IF ~(0 <= slot_number /\ slot_number < Len(available_slots))
        THEN Reply(cs, "slot_out_of_range")
        ELSE IF NeedsInsurance(cs.patient_info)
        THEN Reply([selected EXCEPT !.step = "collect_insurance"], "ask_insurance")
        ELSE show_appointment_summary(selected)

\* handle_insurance_collection taking the member id as the last field
handle_insurance_collection_two_fields(cs, user_input) ==
    LET insurance_data == cs.insurance_temp
        value == Strip(user_input)
    IN  IF Len(insurance_data) = 0
        THEN Reply([cs EXCEPT !.insurance_temp = <<value>>], "ask_member_id")
        ELSE LET full == <<insurance_data[1], value>>
             IN  show_appointment_summary(
                    [cs EXCEPT !.insurance_temp = full, !.insurance = full])

\* handle_insurance_collection(user_input): insurance_temp holds the
\* sub-fields received so far, in the order carrier, member_id, group_id
handle_insurance_collection(cs, user_input) ==
    LET insurance_data == cs.insurance_temp
        value == Strip(user_input)
    IN  IF Len(insurance_data) = 0
        THEN Reply([cs EXCEPT !.insurance_temp = <<value>>], "ask_member_id")
        ELSE IF Len(insurance_data) = 1
        THEN Reply([cs EXCEPT !.insurance_temp = <<insurance_data[1], value>>],
                   "ask_group_id")
        ELSE LET full == <<insurance_data[1], insurance_data[2], value>>
             IN  show_appointment_summary(
                    [cs EXCEPT !.insurance_temp = full, !.insurance = full])

\* what a turn did besides changing the conversation: the table of the
\* session's scheduler, whether schedules.csv was written, the appointment
\* made, and how many confirmation / intake form / export calls were made
Effects(df, saved, appointment, conf, form, export) ==
    [df |-> df, saved |-> saved, appointment |-> appointment,
     conf |-> conf, form |-> form, export |-> export]

NoEffects(df) == Effects(df, FALSE, None, 0, 0, 0)

\* the outcomes of export_appointments_to_excel: the file is written; to_excel
\* fails inside its try and False is returned; os.makedirs, which is outside
\* the try, raises
ExportOutcomes == {"ok", "failed", "raised"}

\* book_appointment() of the agent: now is datetime.now() in seconds, ioOk
\* whether to_csv succeeds, emailOk whether the confirmation send succeeds,
\* exportOut the outcome of the export; an exception of the export is caught
\* by the except clause of book_appointment, before reset_conversation()
agent_book_appointment(cs, df, now, ioOk, emailOk, exportOut) ==
    LET slot == cs.appointment_info[1]
        res  == schedule_appointment(df, cs.patient_info, slot.doctor_name,
                                     slot.date, slot.time, now, ioOk)
    IN  IF res.err # "none"
        THEN [cs |-> cs,
              out |-> IF res.err = "conflict" THEN "booking_conflict"
                      ELSE "booking_error",
              eff |-> Effects(res.df, res.saved, None, 0, 0, 0)]
        ELSE [cs |-> IF exportOut = "raised" THEN cs ELSE reset_conversation,
              out |-> IF exportOut = "raised" THEN "booking_exception"
                      ELSE "booked",
              eff |-> Effects(res.df, res.saved, res.appointment,
                              1, IF emailOk THEN 1 ELSE 0, 1)]

\* CANCEL going back to the greeting without reset_conversation()
handle_appointment_confirmation_keeps_data(cs, df, user_input, now, ioOk, emailOk, exportOut) ==
    LET response == Upper(Strip(user_input))
    IN  IF response = T_CONFIRM
        THEN agent_book_appointment(cs, df, now, ioOk, emailOk, exportOut)
        ELSE IF response = T_CANCEL
        THEN [cs |-> [cs EXCEPT !.step = "greeting"], out |-> "cancelled",
              eff |-> NoEffects(df)]
        ELSE [cs |-> cs, out |-> "confirm_reprompt", eff |-> NoEffects(df)]

\* handle_appointment_confirmation(user_input)
handle_appointment_confirmation(cs, df, user_input, now, ioOk, emailOk, exportOut) ==
    LET response == Upper(Strip(user_input))
    IN  IF response = T_CONFIRM
        THEN agent_book_appointment(cs, df, now, ioOk, emailOk, exportOut)
        ELSE IF response = T_CANCEL
        THEN [cs |-> reset_conversation, out |-> "cancelled", eff |-> NoEffects(df)]
        ELSE [cs |-> cs, out |-> "confirm_reprompt", eff |-> NoEffects(df)]

\* process_message with a slot selection that already marks the selected
\* slot unavailable in the scheduler's table
process_message_holding_selection(cs, patients_df, df, user_input, now, ioOk, emailOk, exportOut) ==
    LET plain(r) == [cs |-> r.cs, out |-> r.out, eff |-> NoEffects(df),
                     pats |-> patients_df]
        emailed(r) == [cs |-> r.cs, out |-> r.out, eff |-> NoEffects(df),
                       pats |-> r.pats]
        confirmed(r) == [cs |-> r.cs, out |-> r.out, eff |-> r.eff,
                         pats |-> patients_df]
        held(r) ==
            [cs |-> r.cs, out |-> r.out,
             eff |-> NoEffects(
                IF r.cs.appointment_info = None THEN df
                ELSE MarkUnavailable(df, r.cs.appointment_info[1].doctor_name,
                                     r.cs.appointment_info[1].date,
                                     r.cs.appointment_info[1].time)),
             pats |-> patients_df]
    IN  CASE cs.step = "greeting" ->
                plain(handle_greeting(cs, user_input))
          [] cs.step = "collect_name" ->
                plain(handle_name_collection(cs, patients_df, user_input))
          [] cs.step = "collect_dob" ->
                plain(handle_dob_collection(cs, user_input))
          [] cs.step = "collect_doctor" ->
                plain(handle_doctor_selection(cs, df, user_input))
          [] cs.step = "collect_phone" ->
                plain(handle_phone_collection(cs, user_input))
          [] cs.step = "collect_email" ->
                emailed(handle_email_collection(cs, patients_df, df, user_input))
          [] cs.step = "show_availability" ->
                held(handle_slot_selection(cs, df, user_input))
          [] cs.step = "collect_insurance" ->
                plain(handle_insurance_collection(cs, user_input))
          [] cs.step = "confirm_appointment" ->
                confirmed(handle_appointment_confirmation(cs, df, user_input, now,
                                                          ioOk, emailOk, exportOut))
          [] OTHER ->
                [cs |-> cs, out |-> "not_understood", eff |-> NoEffects(df),
                 pats |-> patients_df]

\* process_message(user_input): dispatch on the current step
process_message(cs, patients_df, df, user_input, now, ioOk, emailOk, exportOut) ==
    LET plain(r) == [cs |-> r.cs, out |-> r.out, eff |-> NoEffects(df),
                     pats |-> patients_df]
        emailed(r) == [cs |-> r.cs, out |-> r.out, eff |-> NoEffects(df),
                       pats |-> r.pats]
        confirmed(r) == [cs |-> r.cs, out |-> r.out, eff |-> r.eff,
                         pats |-> patients_df]
    IN  CASE cs.step = "greeting" ->
                plain(handle_greeting(cs, user_input))
          [] cs.step = "collect_name" ->
                plain(handle_name_collection(cs, patients_df, user_input))
          [] cs.step = "collect_dob" ->
                plain(handle_dob_collection(cs, user_input))
          [] cs.step = "collect_doctor" ->
                plain(handle_doctor_selection(cs, df, user_input))
          [] cs.step = "collect_phone" ->
                plain(handle_phone_collection(cs, user_input))
          [] cs.step = "collect_email" ->
                emailed(handle_email_collection(cs, patients_df, df, user_input))
          [] cs.step = "show_availability" ->
                plain(handle_slot_selection(cs, df, user_input))
          [] cs.step = "collect_insurance" ->
                plain(handle_insurance_collection(cs, user_input))
          [] cs.step = "confirm_appointment" ->
                confirmed(handle_appointment_confirmation(cs, df, user_input, now,
                                                          ioOk, emailOk, exportOut))
          [] OTHER ->
                [cs |-> cs, out |-> "not_understood", eff |-> NoEffects(df),
                 pats |-> patients_df]

(***************************************************************************)
(* The system: two browser sessions (main.py), each with its own           *)
(* PatientAgent, whose PatientDatabase objects were read from the files    *)
(* when the agent was constructed.                                         *)
(***************************************************************************)
Sessions == {"A", "B"}

\* at most this many appointments are made in one run
MaxAppts == 2

\* the clock is followed for this many seconds
MaxClock == 1

VARIABLES
    schedFile,   \* schedules.csv
    patFile,     \* patients.csv
    patients,    \* patients[s]: agent.db.patients_df of session s
    schedMem,    \* schedMem[s]: agent.scheduler.db.schedules_df of session s
    conv,        \* conv[s]: agent.conversation_state of session s
    appts,       \* the appointments returned so far, in order
    clock,       \* datetime.now(), in seconds
    consumed,    \* consumed[s]: units reserved through session s's scheduler
                 \* since it was constructed
    last         \* the last operation: who, in which step, input, reply,
                 \* and the session and the tables as they were before it

vars == <<schedFile, patFile, patients, schedMem, conv, appts, clock, consumed, last>>

\* the units an appointment of `duration` minutes starting at `time` needs
RequiredUnits(doctor_name, date, time, duration) ==
    {<<doctor_name, date, time + k * SlotMinutes>> :
        k \in 0..((duration \div SlotMinutes) - 1)}

\* the texts tried in each step
InputsAt(step) ==
    CASE step = "greeting" -> {T_Empty, T_Hi, T_CANCEL}
      [] step = "collect_name" ->
            {T_Spaces, T_A, T_JohnSmith, T_AnnLee, T_EveFox, T_JaneDoe, T_CANCEL}
      [] step = "collect_dob" -> {T_Hi, T_DOB, T_FutureDOB, T_CANCEL}
      [] step = "collect_doctor" ->
            {T_Spaces, T_Hi, T_smith, T_DrJones, T_CANCEL}
      [] step = "collect_phone" -> {T_Spaces, T_ShortPhone, T_NoDigits, T_Phone, T_CANCEL}
      [] step = "collect_email" -> {T_BadEmail, T_Email, T_CANCEL}
      [] step = "show_availability" -> {T_Hi, T_1, T_2, T_9, T_CANCEL}
      [] step = "collect_insurance" -> {T_Spaces, T_Aetna, T_CANCEL}
      [] step = "confirm_appointment" -> {T_Hi, T_CONFIRM, T_confirm, T_CANCEL}
      [] OTHER -> {T_Hi}

InitSchedules == {ScheduleOf(a) : a \in [1..3 -> BOOLEAN]}

NoLast ==
    [s |-> "A", step |-> "none", in |-> <<>>, out |-> "none",
     mem |-> <<>>, file |-> <<>>, req |-> None, duration |-> 0,
     appt |-> None, conf |-> 0, form |-> 0, export |-> 0,
     cs |-> reset_conversation, pats |-> InitPatients]

InitWith(schedules, lasts) ==
    /\ schedFile \in schedules
    /\ patFile = InitPatients
    /\ patients = [s \in Sessions |-> patFile]
    /\ schedMem = [s \in Sessions |-> schedFile]
    /\ conv = [s \in Sessions |-> reset_conversation]
    /\ appts = <<>>
    /\ clock = 0
    /\ consumed = [s \in Sessions |-> {}]
    /\ last \in lasts

Init == InitWith(InitSchedules, {NoLast})

\* the effects of one operation of session s on the shared state
Apply(s, step, in, req, r) ==
    /\ conv' = [conv EXCEPT ![s] = r.cs]
    /\ schedMem' = [schedMem EXCEPT ![s] = r.eff.df]
    /\ schedFile' = IF r.eff.saved THEN r.eff.df ELSE schedFile
    /\ appts' = IF r.eff.appointment # None
                THEN Append(appts, [session |-> s, a |-> r.eff.appointment[1]])
                ELSE appts
    /\ consumed' =
          IF r.eff.appointment # None
          THEN [consumed EXCEPT ![s] = @ \cup
                    RequiredUnits(req[1].doctor_name, req[1].date, req[1].time,
                                  r.eff.appointment[1].duration)]
          ELSE consumed
    /\ last' = [s |-> s, step |-> step, in |-> in, out |-> r.out,
                mem |-> schedMem[s], file |-> schedFile, req |-> req,
                duration |-> IF req = None THEN 0
                             ELSE determine_appointment_duration(req[1].patient_info),
                appt |-> r.eff.appointment,
                conf |-> r.eff.conf, form |-> r.eff.form, export |-> r.eff.export,
                cs |-> conv[s], pats |-> patients[s]]
    /\ patients' = [patients EXCEPT ![s] = r.pats]
    /\ patFile' = IF r.pats # patients[s] THEN r.pats ELSE patFile

\* the request a CONFIRM turn makes of schedule_appointment
ConfirmRequest(cs, in) ==
    IF cs.step = "confirm_appointment" /\ Upper(Strip(in)) = T_CONFIRM
    THEN Some([patient_info |-> cs.patient_info,
               doctor_name |-> cs.appointment_info[1].doctor_name,
               date |-> cs.appointment_info[1].date,
               time |-> cs.appointment_info[1].time])
    ELSE None

Ticks == IF clock < MaxClock THEN {0, 1} ELSE {0}

\* one turn of session s in `step`, a step whose handler does not reach
\* the reservation, on one of the texts `inputs`
TurnWith(s, step, inputs) ==
    /\ conv[s].step = step
    /\ \E in \in inputs :
          /\ clock' = clock
          /\ Apply(s, step, in, None,
                   process_message(conv[s], patients[s], schedMem[s], in,
                                   clock, TRUE, TRUE, "ok"))

\* a turn at the confirmation step; time may have passed, the file write
\* (ioOk), the confirmation send (emailOk) and the export may fail
ConfirmWith(s, inputs, ioChoices, emailChoices, exportChoices) ==
    /\ conv[s].step = "confirm_appointment"
    /\ Len(appts) < MaxAppts
    /\ \E in \in inputs :
          LET req == ConfirmRequest(conv[s], in)
          IN  \E dt \in (IF req = None THEN {0} ELSE Ticks) :
              \E ioOk \in (IF req = None THEN {TRUE} ELSE ioChoices) :
              \E emailOk \in (IF req = None THEN {TRUE} ELSE emailChoices) :
              \E exportOut \in (IF req = None THEN {"ok"} ELSE exportChoices) :
                /\ clock' = clock + dt
                /\ Apply(s, "confirm_appointment", in, req,
                         process_message(conv[s], patients[s], schedMem[s], in,
                                         clock + dt, ioOk, emailOk, exportOut))

Turn(s, step) == TurnWith(s, step, InputsAt(step))

Greeting(s) ==
    /\ conv[s].step = "greeting"
    /\ Turn(s, "greeting")

CollectName(s) ==
    /\ conv[s].step = "collect_name"
    /\ Turn(s, "collect_name")

CollectDOB(s) ==
    /\ conv[s].step = "collect_dob"
    /\ Turn(s, "collect_dob")

CollectDoctor(s) ==
    /\ conv[s].step = "collect_doctor"
    /\ Turn(s, "collect_doctor")

CollectPhone(s) ==
    /\ conv[s].step = "collect_phone"
    /\ Turn(s, "collect_phone")

CollectEmail(s) ==
    /\ conv[s].step = "collect_email"
    /\ Turn(s, "collect_email")

ShowAvailability(s) ==
    /\ conv[s].step = "show_availability"
    /\ Turn(s, "show_availability")

CollectInsurance(s) ==
    /\ conv[s].step = "collect_insurance"
    /\ Turn(s, "collect_insurance")

ConfirmAppointment(s) ==
    /\ conv[s].step = "confirm_appointment"
    /\ ConfirmWith(s, InputsAt("confirm_appointment"), BOOLEAN, BOOLEAN,
                   ExportOutcomes)

\* a new browser session: PatientAgent() reads the files again
Construct(s) ==
    /\ conv' = [conv EXCEPT ![s] = reset_conversation]
    /\ patients' = [patients EXCEPT ![s] = patFile]
    /\ schedMem' = [schedMem EXCEPT ![s] = schedFile]
    /\ consumed' = [consumed EXCEPT ![s] = {}]
    /\ last' = [NoLast EXCEPT !.s = s, !.step = "construct", !.out = "constructed",
                              !.mem = schedMem[s], !.file = schedFile]
    /\ UNCHANGED <<schedFile, patFile, appts, clock>>

\* One conversation, every handler, every kind of input
Next ==
    \/ Greeting("A")
    \/ CollectName("A")
    \/ CollectDOB("A")
    \/ CollectDoctor("A")
    \/ CollectPhone("A")
    \/ CollectEmail("A")
    \/ ShowAvailability("A")
    \/ CollectInsurance("A")
    \/ ConfirmAppointment("A")
    \/ Construct("A")

Spec == Init /\ [][Next]_vars

(***************************************************************************)
(* Two sessions side by side, both patients on file                        *)
(***************************************************************************)
TwoInputsAt(step) ==
    CASE step = "greeting" -> {T_Hi}
      [] step = "collect_name" -> {T_JohnSmith, T_AnnLee}
      [] step = "collect_doctor" -> {T_smith}
      [] step = "show_availability" -> {T_1, T_2}
      [] step = "collect_insurance" -> {T_Aetna}
      [] OTHER -> {T_CONFIRM, T_CANCEL}

Chat(s) ==
    /\ conv[s].step # "confirm_appointment"
    /\ \E step \in Steps \ {"confirm_appointment"} :
          TurnWith(s, step, TwoInputsAt(step))

Confirm(s) ==
    /\ conv[s].step = "confirm_appointment"
    /\ ConfirmWith(s, TwoInputsAt("confirm_appointment"), {TRUE}, {TRUE}, {"ok"})

\* later browser sessions take the place of session B
NewSession(s) ==
    /\ s = "B"
    /\ Construct(s)

NextTwo ==
    \E s \in Sessions :
        \/ Chat(s)
        \/ Confirm(s)
        \/ NewSession(s)

\* every slot is open when the two sessions start
InitTwo == InitWith({ScheduleOf([i \in 1..3 |-> TRUE])}, {NoLast})

SpecTwo == InitTwo /\ [][NextTwo]_vars

(***************************************************************************)
(* The scheduler called directly, on every table and every request         *)
(***************************************************************************)
\* patient_info values: a patient on file who has not visited yet (60
\* minutes) and a returning patient (30 minutes)
PatientInfos == {Some(InitPatients[2]), Some(InitPatients[1])}

\* the requested times; Today + 1 has no 09:30 and no 10:00 row
RequestTimes == {HM(9, 0), HM(9, 30), HM(10, 0)}

\* scheduler.schedule_appointment(patient_info, doctor_name, date, time),
\* called on the scheduler of session s; the appointment goes to the caller
Reserve(s) ==
    \E patient_info \in PatientInfos :
    \E i \in 1..Len(Doctors) :
    \E date \in {Today, Today + 1} :
    \E time \in RequestTimes :
    \E ioOk \in BOOLEAN :
        LET doctor_name == Doctors[i].doctor_name
            res == schedule_appointment(schedMem[s], patient_info, doctor_name,
                                        date, time, clock, ioOk)
        IN  /\ schedMem' = [schedMem EXCEPT ![s] = res.df]
            /\ schedFile' = IF res.saved THEN res.df ELSE schedFile
            /\ consumed' =
                  IF res.appointment # None
                  THEN [consumed EXCEPT ![s] = @ \cup
                            RequiredUnits(doctor_name, date, time,
                                          res.appointment[1].duration)]
                  ELSE consumed
            /\ last' = [NoLast EXCEPT
                          !.s = s, !.step = "api", !.out = res.err,
                          !.mem = schedMem[s], !.file = schedFile,
                          !.req = Some([patient_info |-> patient_info,
                                        doctor_name |-> doctor_name,
                                        date |-> date, time |-> time]),
                          !.duration = determine_appointment_duration(patient_info),
                          !.appt = res.appointment]
            /\ UNCHANGED <<patFile, patients, conv, appts, clock>>

NextSched == Reserve("A") \/ Construct("A")

SpecSched == Init /\ [][NextSched]_vars

(***************************************************************************)
(* The scheduler called directly on schedule files with other rows: slots  *)
(* around midnight, and rows that are not in the order of their times      *)
(***************************************************************************)
\* rows at the two ends of a day; a in BOOLEAN^3 gives today's flags
LateScheduleOf(a) ==
    << Row(T_DrSmith, Today, HM(0, 0), a[1]),
       Row(T_DrSmith, Today, HM(23, 0), a[2]),
       Row(T_DrSmith, Today, HM(23, 30), a[3]),
       Row(T_DrSmith, Today + 1, HM(0, 0), TRUE) >>

\* the rows of ScheduleOf with today's rows in the opposite order
UnorderedScheduleOf(a) ==
    << Row(T_DrSmith, Today, HM(10, 0), a[3]),
       Row(T_DrSmith, Today, HM(9, 30), a[2]),
       Row(T_DrSmith, Today, HM(9, 0), a[1]),
       Row(T_DrSmith, Today + 1, HM(9, 0), TRUE) >>

RowSchedules ==
    {LateScheduleOf(a) : a \in [1..3 -> BOOLEAN]}
    \cup {UnorderedScheduleOf(a) : a \in [1..3 -> BOOLEAN]}

RowTimes == {HM(0, 0), HM(9, 0), HM(9, 30), HM(10, 0), HM(23, 0), HM(23, 30)}

InitRows == InitWith(RowSchedules, {NoLast})

\* scheduler.schedule_appointment(patient_info, doctor_name, date, time) on
\* the scheduler of session s, for the times of these files; the file is
\* written every time
ReserveOnRows(s) ==
    \E patient_info \in PatientInfos :
    \E date \in {Today, Today + 1} :
    \E time \in RowTimes :
        LET doctor_name == T_DrSmith
            res == schedule_appointment(schedMem[s], patient_info, doctor_name,
                                        date, time, clock, TRUE)
        IN  /\ schedMem' = [schedMem EXCEPT ![s] = res.df]
            /\ schedFile' = IF res.saved THEN res.df ELSE schedFile
            /\ consumed' =
                  IF res.appointment # None
                  THEN [consumed EXCEPT ![s] = @ \cup
                            RequiredUnits(doctor_name, date, time,
                                          res.appointment[1].duration)]
                  ELSE consumed
            /\ last' = [NoLast EXCEPT
                          !.s = s, !.step = "api", !.out = res.err,
                          !.mem = schedMem[s], !.file = schedFile,
                          !.req = Some([patient_info |-> patient_info,
                                        doctor_name |-> doctor_name,
                                        date |-> date, time |-> time]),
                          !.duration = determine_appointment_duration(patient_info),
                          !.appt = res.appointment]
            /\ UNCHANGED <<patFile, patients, conv, appts, clock>>

NextRows == ReserveOnRows("A") \/ Construct("A")

SpecRows == InitRows /\ [][NextRows]_vars

(***************************************************************************)
(* One conversation on a schedule with more candidates than are displayed  *)
(***************************************************************************)
\* the provider's day has this many half-hour slots, from 09:00 on
LongDaySlots == 12

LongSchedule ==
    [i \in 1..LongDaySlots |->
        Row(T_DrSmith, Today, HM(9, 0) + (i - 1) * SlotMinutes, TRUE)]

T_11 == <<"1", "1">>

T_12 == <<"1", "2">>

LongInputsAt(step) ==
    CASE step = "greeting" -> {T_Hi}
      [] step = "collect_name" -> {T_JohnSmith, T_AnnLee}
      [] step = "collect_doctor" -> {T_smith}
      [] step = "show_availability" -> {T_1, T_11, T_12}
      [] step = "collect_insurance" -> {T_Aetna}
      [] OTHER -> {T_CONFIRM, T_CANCEL}

ChatLong(s) ==
    /\ conv[s].step # "confirm_appointment"
    /\ \E step \in Steps \ {"confirm_appointment"} :
          TurnWith(s, step, LongInputsAt(step))

ConfirmLong(s) ==
    /\ conv[s].step = "confirm_appointment"
    /\ ConfirmWith(s, LongInputsAt("confirm_appointment"), {TRUE}, {TRUE}, {"ok"})

NextLong == ChatLong("A") \/ ConfirmLong("A")

InitLong == InitWith({LongSchedule}, {NoLast})

SpecLong == InitLong /\ [][NextLong]_vars

(***************************************************************************)
(* Patient creation called directly, by two sessions                       *)
(***************************************************************************)
\* no patient table grows beyond this many records
MaxPatients == 5

T_BobRay == <<"B", "o", "b", " ", "R", "a", "y">>

\* the new_patient_data of handle_email_collection for these names
NewPatientData ==
    {[name |-> n, insurance_carrier |-> T_TBD] : n \in {T_JaneDoe, T_BobRay}}

\* db.add_new_patient(new_patient_data), called on the database of session s
AddPatient(s) ==
    /\ Len(patients[s]) < MaxPatients
    /\ \E patient_data \in NewPatientData :
       \E ioOk \in BOOLEAN :
          LET res == add_new_patient(patients[s], patient_data, ioOk)
          IN  /\ patients' = [patients EXCEPT ![s] = res.df]
              /\ patFile' = IF res.saved THEN res.df ELSE patFile
              /\ last' = [NoLast EXCEPT
                            !.s = s, !.step = "add_patient",
                            !.in = patient_data.name,
                            !.out = IF ioOk THEN "added" ELSE "exception",
                            !.pats = patients[s]]
              /\ UNCHANGED <<schedFile, schedMem, conv, appts, clock, consumed>>

NextPat ==
    \E s \in Sessions :
        \/ AddPatient(s)
        \/ Construct(s)

SpecPat == InitTwo /\ [][NextPat]_vars

(***************************************************************************)
(* The duration policy applied to every kind of patient record             *)
(***************************************************************************)
\* visit counts up to this are tried
MaxVisits == 5

InsuranceValues == {<<>>, T_TBD, T_Aetna}

\* the empty dict, records without a visit count, records with one
DurationInputs ==
    {None}
    \cup {Some([patient_id |-> PatientIdText(id), insurance_carrier |-> ins]) :
            id \in 1..3, ins \in InsuranceValues}
    \cup {Some([patient_id |-> PatientIdText(id), insurance_carrier |-> ins,
                 previous_visits |-> v]) :
            id \in 1..3, ins \in InsuranceValues, v \in 0..MaxVisits}

InitDur ==
    InitWith({ScheduleOf([i \in 1..3 |-> TRUE])},
             {[NoLast EXCEPT !.step = "duration_input",
                             !.req = Some([patient_info |-> p])] :
                 p \in DurationInputs})

\* scheduler.determine_appointment_duration(patient_info)
DetermineDuration ==
    /\ last.step = "duration_input"
    /\ last' = [last EXCEPT
                  !.step = "duration",
                  !.duration = determine_appointment_duration(last.req[1].patient_info)]
    /\ UNCHANGED <<schedFile, patFile, patients, schedMem, conv, appts, clock, consumed>>

NextDur == DetermineDuration

SpecDur == InitDur /\ [][NextDur]_vars

(***************************************************************************)
(* Properties                                                              *)
(***************************************************************************)
\* unit u = <<doctor_name, date, time>> has a row that is marked available
SlotOpen(df, u) ==
    \E i \in 1..Len(df) :
        /\ df[i].doctor_name = u[1]
        /\ df[i].date = u[2]
        /\ df[i].time = u[3]
        /\ df[i].available

KeyOf(row) == <<row.doctor_name, row.date, row.time>>

\* the units the last request needs
LastUnits ==
    RequiredUnits(last.req[1].doctor_name, last.req[1].date, last.req[1].time,
                  last.duration)

\* the last operation called schedule_appointment
LastReserved == last.req # None /\ last.step \in {"api", "confirm_appointment"}

ApptUnits(x) == RequiredUnits(x.a.doctor_name, x.a.date, x.a.time, x.a.duration)

\* C1: of two reservations made by different sessions on overlapping unit
\* sets only one succeeds: no two appointments of different sessions share
\* a unit.
C1_OverlappingReservationsExclude ==
    \A i, j \in 1..Len(appts) :
        (i < j /\ appts[i].session # appts[j].session)
            => ApptUnits(appts[i]) \cap ApptUnits(appts[j]) = {}

Flipped(old, new) ==
    {i \in 1..Len(old) : old[i].available /\ ~new[i].available}

QueryDates == {None, Some(Today), Some(Today + 1)}

QueryDurations == {SlotMinutes, 2 * SlotMinutes}

Returning(patient_info) ==
    /\ patient_info # None
    /\ "previous_visits" \in DOMAIN patient_info[1]
    /\ patient_info[1].previous_visits > 0

\* C6: when candidates are presented to a returning patient while a slot
\* is open and the slot 30 minutes later is booked, the list contains that
\* slot.
C6_ReturningPatientSeesSingleUnit ==
    \A t \in RequestTimes :
        LET s == last.s
            doctor_name == conv[s].doctor[1]
            shown == get_available_appointments(schedMem[s], doctor_name, None, NumDays)
        IN  ( /\ last.step = "collect_doctor"
              /\ last.out \in {"slots", "no_slots"}
              /\ Returning(conv[s].patient_info)
              /\ SlotOpen(schedMem[s], <<doctor_name, Today, t>>)
              /\ \E i \in 1..Len(schedMem[s]) :
                    /\ KeyOf(schedMem[s][i]) = <<doctor_name, Today, t + SlotMinutes>>
                    /\ ~schedMem[s][i].available )
            => /\ last.out = "slots"
               /\ conv[s].step = "show_availability"
               /\ \E k \in 1..Len(shown) :
                     shown[k].date = Today /\ shown[k].time = t

\* C7: after a CONFIRM turn that was refused because the slot is no longer
\* available, the session is in ShowAvailability with fresh candidates
\* that leave out the stale slot.
C7_ConflictShowsAvailabilityAgain ==
    (last.step = "confirm_appointment" /\ last.out = "booking_conflict")
        => LET s == last.s
               shown == get_available_appointments(schedMem[s], conv[s].doctor[1],
                                                   None, NumDays)
           IN  /\ conv[s].step = "show_availability"
               /\ \A k \in 1..Len(shown) :
                     ~(shown[k].date = last.req[1].date /\ shown[k].time = last.req[1].time)

\* C8: a new patient who gives a valid email at CollectEmail gets a patient
\* record and goes on to the candidates (and from there to the 60 minute
\* booking).
C8_NewPatientGoesOnToBooking ==
    (last.step = "collect_email" /\ EmailMatches(Strip(last.in)))
        => /\ last.out \in {"slots", "no_slots"}
           /\ conv[last.s].patient_info # None

\* C9: determine_appointment_duration gives 30 minutes exactly for a record
\* with a visit count above zero and 60 minutes for every other record
\* (visit count 0, no visit count, empty record).
C9_DurationMapping ==
    last.step = "duration"
        => last.duration = IF Returning(last.req[1].patient_info)
                           THEN SlotMinutes
                           ELSE 2 * SlotMinutes

\* C9 witness: a record without a visit count was given 60 minutes
C9_Witness ==
    /\ last.step = "duration"
    /\ last.req[1].patient_info # None
    /\ "previous_visits" \notin DOMAIN last.req[1].patient_info[1]
    /\ last.duration = 2 * SlotMinutes

\* the session is as it is at the greeting of a new conversation
SessionIsEmpty(cs) ==
    /\ cs.step = "greeting"
    /\ cs.patient_info = None
    /\ cs.appointment_info = None
    /\ cs.name = None /\ cs.dob = None /\ cs.doctor = None /\ cs.location = None
    /\ cs.phone = None /\ cs.email = None
    /\ cs.insurance = <<>>

IsCancel(text) == Upper(Strip(text)) = T_CANCEL

\* C10 as claimed: in every step, the input CANCEL returns the session to
\* Greeting with empty collected data.
C10_CancelInEveryStep ==
    (last.step \in Steps /\ IsCancel(last.in)) => SessionIsEmpty(conv[last.s])

\* C10 as amended: at ConfirmAppointment, the input CANCEL returns the
\* session to Greeting with empty collected data.
C10_CancelAtConfirmation ==
    (last.step = "confirm_appointment" /\ IsCancel(last.in))
        => SessionIsEmpty(conv[last.s])

\* C10 witness: CANCEL was typed at ConfirmAppointment
C10_Witness ==
    /\ last.step = "confirm_appointment"
    /\ IsCancel(last.in)
    /\ last.out = "cancelled"

\* the last operation was a turn at the confirmation step whose text is
\* CONFIRM (trimmed, in any letter case)
IsConfirm(text) == Upper(Strip(text)) = T_CONFIRM

\* C11: after a CONFIRM turn whose reservation succeeded, and after a
\* CANCEL turn at ConfirmAppointment, the session equals the initial
\* session: step Greeting, nothing collected, no insurance sub-collection
\* in progress.
C11_SessionInitialAfterSuccessOrCancel ==
    ( /\ last.step = "confirm_appointment"
      /\ \/ IsConfirm(last.in) /\ last.appt # None
         \/ IsCancel(last.in) )
        => conv[last.s] = reset_conversation

\* the number of digits in a text
RECURSIVE DigitCount(_)
DigitCount(t) ==
    IF t = <<>> THEN 0
    ELSE (IF Head(t) \in DigitChars THEN 1 ELSE 0) + DigitCount(Tail(t))

\* the text names no provider: no doctor's name contains it and it contains
\* no doctor's name, letter case aside
NamesNoProvider(text) ==
    \A i \in 1..Len(Doctors) :
        /\ ~Contains(Lower(Doctors[i].doctor_name), Lower(Strip(text)))
        /\ ~Contains(Lower(Strip(text)), Lower(Doctors[i].doctor_name))

\* the input `text` is invalid in `step`, for a session cs whose scheduler
\* holds the table df
InvalidInput(step, text, cs, df) ==
    CASE step = "collect_name" -> Len(Strip(text)) < 2
      [] step = "collect_dob" ->
            \/ ParseDate(Strip(text)) = None
            \/ DateAfterNow(ParseDate(Strip(text))[1])
      [] step = "collect_doctor" -> NamesNoProvider(text)
      [] step = "collect_phone" -> DigitCount(text) < 10
      [] step = "collect_email" -> ~EmailMatches(Strip(text))
      [] step = "show_availability" ->
            \/ ~IntParses(text)
            \/ IntValue(text) \notin
                  1..Len(get_available_appointments(df, cs.doctor[1], None, NumDays))
      [] step = "confirm_appointment" -> ~IsConfirm(text) /\ ~IsCancel(text)
      [] OTHER -> FALSE

\* C12: an invalid input leaves the step and all collected data unchanged,
\* creates no patient record and changes no slot availability.
C12_InvalidInputChangesNothing ==
    (last.step \in Steps /\ InvalidInput(last.step, last.in, last.cs, last.mem))
        => /\ conv[last.s] = last.cs
           /\ patients[last.s] = last.pats
           /\ schedMem[last.s] = last.mem
           /\ schedFile = last.file

\* C13: empty or whitespace-only input at CollectName, at CollectPhone and
\* at the three CollectInsurance sub-steps does not advance the session and
\* records no field.
C13_BlankInputRecordsNothing ==
    ( /\ last.step \in {"collect_name", "collect_phone", "collect_insurance"}
      /\ Strip(last.in) = <<>> )
        => conv[last.s] = last.cs

\* the identity fields of a session
Identity(cs) == <<cs.name, cs.dob, cs.phone, cs.email, cs.patient_info>>

\* C14: when the matched provider has no candidate slots in the window, the
\* session is in CollectDoctor for the next turn, the identity fields are as
\* they were, and doctor, location and slot selection are cleared; on the
\* existing-patient path (from CollectDoctor) and on the new-patient path
\* (from CollectEmail, where a valid email of a patient whose provider has
\* no candidates is answered by the no-slots reply).
C14_NoSlotsReturnsToCollectDoctor ==
    LET s == last.s
        noCandidates ==
            /\ last.cs.doctor # None
            /\ get_available_appointments(last.mem, last.cs.doctor[1], None,
                                          NumDays) = <<>>
    IN  /\ (last.step = "collect_doctor" /\ last.out = "no_slots")
            => /\ conv[s].step = "collect_doctor"
               /\ Identity(conv[s]) = Identity(last.cs)
               /\ conv[s].doctor = None
               /\ conv[s].location = None
               /\ conv[s].appointment_info = None
        /\ ( /\ last.step = "collect_email"
             /\ EmailMatches(Strip(last.in))
             /\ noCandidates )
            => /\ last.out = "no_slots"
               /\ conv[s].step = "collect_doctor"
               /\ conv[s].doctor = None
               /\ conv[s].location = None
               /\ conv[s].appointment_info = None

\* C15: when the schedule write fails during the reservation of a CONFIRM
\* turn, the availability in the scheduler's table after the turn equals the
\* availability before it, and the session does not advance.
C15_FailedWriteRollsBack ==
    (last.step = "confirm_appointment" /\ last.out = "booking_error")
        => /\ schedMem[last.s] = last.mem
           /\ schedFile = last.file
           /\ conv[last.s] = last.cs

\* C16: a CONFIRM turn that ends in a successful booking made exactly one
\* reservation, exactly one confirmation send and exactly one intake-form
\* send.
C16_OneReservationOneConfirmationOneForm ==
    (last.step = "confirm_appointment" /\ last.out = "booked")
        => /\ last.appt # None
           /\ {KeyOf(last.mem[i]) : i \in Flipped(last.mem, schedMem[last.s])}
                 = LastUnits
           /\ last.conf = 1
           /\ last.form = 1

\* C17: once schedule_appointment has returned an appointment, the units
\* stay unavailable and the turn reports the booking as confirmed, whatever
\* the outcome of the confirmation send, the intake-form send and the
\* export.
C17_SideEffectFailuresKeepBooking ==
    (last.step = "confirm_appointment" /\ last.appt # None)
        => /\ last.out = "booked"
           /\ \A u \in LastUnits : ~SlotOpen(schedMem[last.s], u)
           /\ \A u \in LastUnits : ~SlotOpen(schedFile, u)

\* C18: every turn other than a CONFIRM at ConfirmAppointment (showing
\* candidates, selecting a slot, collecting insurance, cancelling, ...)
\* leaves the availability of every slot unchanged, in the table of the
\* session's scheduler and in the schedule file.
C18_NoReservationBeforeConfirm ==
    ( /\ last.step \in Steps
      /\ ~(last.step = "confirm_appointment" /\ IsConfirm(last.in)) )
        => /\ schedMem[last.s] = last.mem
           /\ schedFile = last.file

\* C18 witness: a slot was selected and is still open afterwards
C18_Witness ==
    /\ last.step = "show_availability"
    /\ last.out \in {"summary", "ask_insurance"}
    /\ conv[last.s].appointment_info # None
    /\ SlotOpen(schedMem[last.s], KeyOf(conv[last.s].appointment_info[1]))
    /\ SlotOpen(schedFile, KeyOf(conv[last.s].appointment_info[1]))

\* the patient tables there are: each session's and the file
PatientTables == {patients[s] : s \in Sessions} \cup {patFile}

\* the records of one table have pairwise different identifiers
UniqueIdsWithin(table) ==
    \A i, j \in 1..Len(table) :
        table[i].patient_id = table[j].patient_id => i = j

\* C19: patient identifiers are unique after any sequence of patient
\* creations, also when two sessions that loaded the same file each create a
\* patient: inside every table identifiers are pairwise different, and two
\* records with the same identifier, in whichever tables, are records of
\* the same patient.
C19_PatientIdsUnique ==
    /\ \A table \in PatientTables : UniqueIdsWithin(table)
    /\ \A t1, t2 \in PatientTables :
       \A i \in 1..Len(t1) :
       \A j \in 1..Len(t2) :
          t1[i].patient_id = t2[j].patient_id => t1[i].name = t2[j].name

\* inside every single table and inside the file identifiers are pairwise
\* different
PatientIdsUniquePerTable ==
    \A table \in PatientTables : UniqueIdsWithin(table)

\* C20: any two distinct successful reservations, in the same or in
\* different sessions and however close in time, have different appointment
\* identifiers.
C20_AppointmentIdsFresh ==
    \A i, j \in 1..Len(appts) :
        appts[i].a.appointment_id = appts[j].a.appointment_id => i = j

\* C21: from Greeting, any input, empty or not, moves the session to
\* CollectName and records no field: the session after the turn is the
\* session before it with the step changed, so the input is not the name.
C21_GreetingOnlyAdvances ==
    last.step = "greeting"
        => conv[last.s] = [last.cs EXCEPT !.step = "collect_name"]

\* C21 witness: a non-empty text was typed at Greeting and no name is held
C21_Witness ==
    /\ last.step = "greeting"
    /\ last.in = T_Hi
    /\ conv[last.s].step = "collect_name"
    /\ conv[last.s].name = None

\* the patients of `table` whose name contains `name`, letter case aside
PatientsNamed(table, name) ==
    {i \in 1..Len(table) : Contains(Lower(table[i].name), Lower(name))}

FuzzyMatches(text) ==
    {i \in 1..Len(Doctors) :
        \/ Contains(Lower(Doctors[i].doctor_name), Lower(Strip(text)))
        \/ Contains(Lower(Strip(text)), Lower(Doctors[i].doctor_name))}

\* the session holds a provider the text matches, and that provider's location
RecordsMatchedProvider(cs, text) ==
    \E i \in FuzzyMatches(text) :
        /\ cs.doctor = Some(Doctors[i].doctor_name)
        /\ cs.location = Some(Doctors[i].location)

C24_PhoneNeedsTenDigits ==
    LET s == last.s
    IN  last.step = "collect_phone"
            => /\ conv[s].step = "collect_email" => DigitCount(last.in) >= 10
               /\ DigitCount(last.in) < 10
                    => /\ conv[s].step = "collect_phone"
                       /\ conv[s].phone = None

\* the record a new patient gets: no visit yet, placeholder insurance
IsNewPatientRecord(patient_info, name) ==
    /\ patient_info # None
    /\ patient_info[1].name = name
    /\ patient_info[1].previous_visits = 0
    /\ patient_info[1].insurance_carrier = T_TBD

\* C25: at CollectEmail every input matching the email pattern creates the
\* patient record (visit count 0, placeholder insurance) and moves the
\* session to ShowAvailability.
C25_ValidEmailCreatesPatient ==
    LET s == last.s
    IN  (last.step = "collect_email" /\ EmailMatches(Strip(last.in)))
            => /\ Len(patients[s]) = Len(last.pats) + 1
               /\ IsNewPatientRecord(conv[s].patient_info, last.cs.name[1])
               /\ conv[s].step = "show_availability"

\* C30: process_message is total: every turn returns a response without
\* raising and leaves the session in one of the nine steps.
C30_ProcessMessageTotal ==
    last.step \in Steps
        => /\ last.out # "raised"
           /\ conv[last.s].step \in Steps

\* the patient's insurance carrier on file is missing (no such field, or an
\* empty cell of patients.csv) or the placeholder
CarrierMissingOrPlaceholder(patient_info) ==
    \/ patient_info = None
    \/ "insurance_carrier" \notin DOMAIN patient_info[1]
    \/ patient_info[1].insurance_carrier \in {<<>>, NaN, T_TBD}

\* the last turn was a selection, at ShowAvailability, of a number of the
\* candidate list
SelectedWithinBounds ==
    /\ last.step = "show_availability"
    /\ IntParses(last.in)
    /\ IntValue(last.in) \in
          1..Len(get_available_appointments(last.mem, last.cs.doctor[1], None, NumDays))

\* C26: at ShowAvailability a numeric selection within bounds records the
\* selected slot and moves the session to CollectInsurance when the
\* patient's insurance carrier on file is missing or the placeholder, and to
\* ConfirmAppointment when it is present.
C26_SelectionThenInsuranceOrConfirm ==
    LET s == last.s
        candidates ==
            get_available_appointments(last.mem, last.cs.doctor[1], None, NumDays)
    IN  SelectedWithinBounds
            => /\ conv[s].appointment_info = Some(candidates[IntValue(last.in)])
               /\ conv[s].step =
                     IF CarrierMissingOrPlaceholder(last.cs.patient_info)
                     THEN "collect_insurance"
                     ELSE "confirm_appointment"

NextUnitSameDayOpen(df, doctor_name, date, time) ==
    /\ time + SlotMinutes < MinutesPerDay
    /\ SlotOpen(df, <<doctor_name, date, time + SlotMinutes>>)

\* C28: a 60-minute candidate is valid only through the slot exactly 30
\* minutes later on the same provider and calendar date: every candidate of
\* the 60-minute query has that slot open, and a 60-minute booking marks the
\* start slot and that slot only, never a slot across the day boundary.
C28_SecondUnitIsAdjacentSameDay ==
    LET df == schedMem["A"]
    IN  /\ \A date \in {Today, Today + 1} :
              LET candidates ==
                      get_available_slots(df, T_DrSmith, Some(date), NewPatientDuration)
              IN  \A k \in 1..Len(candidates) :
                      NextUnitSameDayOpen(df, T_DrSmith, date, candidates[k].time)
        /\ ( /\ last.step = "api"
             /\ last.appt # None
             /\ last.duration = NewPatientDuration )
            => /\ last.req[1].time + SlotMinutes < MinutesPerDay
               /\ {KeyOf(last.mem[i]) : i \in Flipped(last.mem, df)} = LastUnits

\* the sequence of slots is in ascending order of (date, time)
Chronological(slots) ==
    \A i, j \in 1..Len(slots) :
        i < j => \/ slots[i].date < slots[j].date
                 \/ slots[i].date = slots[j].date /\ slots[i].time <= slots[j].time

\* C29: get_available_appointments returns the candidates in ascending
\* order of (date, time) whatever the content and the row order of the
\* schedule, and the list shown is the first min(limit, n) candidates of
\* that order, numbered from 1.
C29_CandidatesChronological ==
    \A limit \in 1..DisplayLimit :
        LET candidates ==
                get_available_appointments(schedMem["A"], T_DrSmith, None, NumDays)
            shown == format_available_slots(candidates, limit)
        IN  /\ Chronological(candidates)
            /\ Len(shown) = IF Len(candidates) < limit THEN Len(candidates) ELSE limit
            /\ \A k \in 1..Len(shown) :
                  /\ shown[k].number = k
                  /\ shown[k].date = candidates[k].date
                  /\ shown[k].time = candidates[k].time

\* C34: at CollectDoctor an empty or whitespace-only input selects no
\* provider: the session stays in CollectDoctor and doctor and location
\* stay as they were, unset for a session that had none.
C34_BlankSelectsNoProvider ==
    (last.step = "collect_doctor" /\ Strip(last.in) = <<>>)
        => /\ conv[last.s].step = "collect_doctor"
           /\ conv[last.s].doctor = last.cs.doctor
           /\ conv[last.s].location = last.cs.location

\* C36: when the step is ShowAvailability, CollectInsurance or
\* ConfirmAppointment, patient info is non-empty and a doctor is recorded;
\* when it is CollectInsurance or ConfirmAppointment a selected slot is
\* recorded; when it is Greeting, patient info, selected slot and all
\* collected fields are empty.
C36_StepDataInvariant ==
    \A s \in Sessions :
        LET cs == conv[s]
        IN  /\ cs.step \in {"show_availability", "collect_insurance",
                            "confirm_appointment"}
                => cs.patient_info # None /\ cs.doctor # None
            /\ cs.step \in {"collect_insurance", "confirm_appointment"}
                => cs.appointment_info # None
            /\ cs.step = "greeting" => SessionIsEmpty(cs)

\* C36 witness: a session at ConfirmAppointment after the three insurance
\* fields, holding patient, doctor and slot
C36_Witness ==
    /\ conv["A"].step = "confirm_appointment"
    /\ last.step = "collect_insurance"
    /\ conv["A"].patient_info # None
    /\ conv["A"].doctor # None
    /\ conv["A"].appointment_info # None

\* C37: every successful booking is for the slot the user selected: doctor,
\* date and start time of the appointment are those of the slot recorded at
\* ShowAvailability, and its duration is the duration the confirmation
\* summary showed for that patient.
C37_BookingIsForSelectedSlot ==
    (last.step = "confirm_appointment" /\ last.appt # None)
        => LET slot == last.cs.appointment_info[1]
               appointment == last.appt[1]
           IN  /\ appointment.doctor_name = slot.doctor_name
               /\ appointment.date = slot.date
               /\ appointment.time = slot.time
               /\ appointment.duration = summary_duration(last.cs.patient_info)

\* C37 witness: a returning patient's booking of 30 minutes was confirmed
C37_Witness ==
    /\ last.step = "confirm_appointment"
    /\ last.out = "booked"
    /\ last.appt # None
    /\ last.appt[1].duration = SummaryReturningMinutes
    /\ last.appt[1].time = last.cs.appointment_info[1].time

\* C32: reservations committed by different sessions on disjoint unit sets
\* are all preserved in the persisted schedule: when the appointments made
\* share no unit, the schedule file marks every unit of every one of them
\* unavailable.
C32_DisjointReservationsPersist ==
    (\A i, j \in 1..Len(appts) :
        i # j => ApptUnits(appts[i]) \cap ApptUnits(appts[j]) = {})
        => \A i \in 1..Len(appts) :
              \A u \in ApptUnits(appts[i]) : ~SlotOpen(schedFile, u)

\* the numbers of the list shown for the provider of session cs
DisplayedNumbers(cs, df) ==
    LET shown == format_available_slots(
                    get_available_appointments(df, cs.doctor[1], None, NumDays),
                    DisplayLimit)
    IN  {shown[k].number : k \in 1..Len(shown)}

\* C33: at ShowAvailability a slot number is accepted only if it is one of
\* the numbers displayed: a number that is not in the displayed list, such
\* as one above the display limit when there are more candidates than that,
\* selects no slot and leaves the session as it was.
C33_OnlyDisplayedNumbersAccepted ==
    ( /\ last.step = "show_availability"
      /\ IntParses(last.in)
      /\ IntValue(last.in) \notin DisplayedNumbers(last.cs, last.mem) )
        => /\ conv[last.s] = last.cs
           /\ conv[last.s].appointment_info = None

SessionAt(cs, df) == [cs |-> cs, df |-> df]

\* where one process_message turn can take the session x, over the texts
\* tried in its step (every handler's kinds of input), with the file write
\* and the sends succeeding
TurnsFrom(x, pats) ==
    {LET r == process_message(x.cs, pats, x.df, in, 0, TRUE, TRUE, "ok")
     IN  SessionAt(r.cs, r.eff.df) : in \in InputsAt(x.cs.step)}

\* some sequence of turns from a session of `frontier` ends in Greeting
RECURSIVE GreetingReachable(_, _, _)
GreetingReachable(frontier, seen, pats) ==
    IF \E x \in frontier : x.cs.step = "greeting" THEN TRUE
    ELSE IF frontier = {} THEN FALSE
    ELSE LET visited == seen \cup frontier
             next == UNION {TurnsFrom(x, pats) : x \in frontier} \ visited
         IN  GreetingReachable(next, visited, pats)

\* C31: no failure traps a session: from every reachable session state,
\* also after a failed reservation at ConfirmAppointment and after a
\* provider with no open slots, some finite sequence of process_message
\* inputs brings the session back to Greeting.
C31_NoSessionTrapped ==
    GreetingReachable({SessionAt(conv["A"], schedMem["A"])}, {}, patients["A"])

====
